---- MODULE Spec2Model ----
(***************************************************************************)
(* Model of the risk-report renderer of sniffr_twitterbot                  *)
(* (services/infoimage.py: draw_progress_ring, create_report_image) and of *)
(* the text summary (services/twitter.py: create_report_text).             *)
(*                                                                         *)
(* One behaviour is one call of create_report_text followed by one call of *)
(* create_report_image on the same report, as respondToTweet makes them.   *)
(*                                                                         *)
(* Representation of Python values:                                        *)
(*   - dict.get(key, default): a possibly missing key is a sequence of     *)
(*     length 0 (missing) or 1 (present), read with DictGet;               *)
(*   - a token address is the sequence of its characters (numbers);        *)
(*   - a risk name is the sequence of the lengths of its words, the words  *)
(*     being separated by single spaces;                                   *)
(*   - a text handed to textbbox/text is a record: kind, a string part,    *)
(*     a numeric part and its length in characters;                        *)
(*   - angles are in tenths of a degree (score/100*360 = 3.6*score).       *)
(***************************************************************************)
EXTENDS Integers, Sequences, FiniteSets, TLC

(***************************************************************************)
(* Bounds of the model.                                                    *)
(***************************************************************************)
MaxRisks == 4
MaxCalls == 2

(***************************************************************************)
(* Constants of create_report_image.                                       *)
(***************************************************************************)
width == 1200
min_height == 800
left_margin == 50
right_margin == 50
top_margin == 40
bottom_margin == 40
vertical_spacing == 15
content_width == width - left_margin - right_margin
circle_radius == 60
circle_height == circle_radius * 2

white == <<240, 240, 240>>
light_gray == <<180, 180, 180>>
yellow == <<255, 200, 0>>
red == <<255, 100, 100>>
green == <<100, 200, 150>>
blue == <<120, 180, 255>>

Unbound == 0 - 1

Max(a, b) == IF a >= b THEN a ELSE b
Min(a, b) == IF a <= b THEN a ELSE b

(***************************************************************************)
(* Python helpers.                                                         *)
(***************************************************************************)
DictGet(opt, default) == IF opt = <<>> THEN default ELSE opt[1]

\* s[:n] for n >= 0
SliceTo(s, n) == SubSeq(s, 1, Min(n, Len(s)))

\* s[-n:] for n > 0
SliceLast(s, n) == SubSeq(s, Max(1, Len(s) - n + 1), Len(s))

Dots == <<0, 0, 0>>

\* str.upper() on the level strings of the model
Upper(s) ==
  CASE s = "danger" -> "DANGER"
    [] s = "Danger" -> "DANGER"
    [] s = "warning" -> "WARNING"
    [] s = "info" -> "INFO"
    [] s = "unknown" -> "UNKNOWN"
    [] OTHER -> s

\* len() of the strings of the model
StrLen(s) ==
  CASE s = "" -> 0
    [] s = "HIGH RISK" -> 9
    [] s = "MEDIUM RISK" -> 11
    [] s = "LOW RISK" -> 8
    [] s = "DANGER" -> 6
    [] s = "WARNING" -> 7
    [] s = "INFO" -> 4
    [] s = "UNKNOWN" -> 7
    [] s = "12%" -> 3
    [] s = "Token Risk Report" -> 17
    [] s = "Top Risks:" -> 10
    [] s = "Powered by Sniffr" -> 17
    [] OTHER -> 0

\* len(f"{n}") for n >= 0
DigitsLen(n) == IF n < 10 THEN 1 ELSE IF n < 100 THEN 2 ELSE IF n < 1000 THEN 3 ELSE 4

\* kind, string part s, second string part v, numeric part body, length
Text(kind, s, v, body, len) == [kind |-> kind, s |-> s, v |-> v, body |-> body, len |-> len]

NoText == Text("", "", "", <<>>, 0)

(***************************************************************************)
(* textwrap.wrap(text, width=w) on a text given by its word lengths.       *)
(* A chunk is a word (its length, > 0), a single space (-1) or the empty   *)
(* piece that breaking a long word at a full line leaves (0).  The result  *)
(* is the sequence of the lengths of the lines.                            *)
(***************************************************************************)
RECURSIVE Chunks(_)
Chunks(words) ==
  IF words = <<>> THEN <<>>
  ELSE IF Len(words) = 1 THEN <<words[1]>>
  ELSE <<words[1], 0 - 1>> \o Chunks(Tail(words))

IsBlank(c) == c <= 0
ChunkLen(c) == IF c < 0 THEN 0 - c ELSE c

RECURSIVE SumLen(_)
SumLen(cs) == IF cs = <<>> THEN 0 ELSE ChunkLen(Head(cs)) + SumLen(Tail(cs))

\* the inner loop: chunks are taken while they fit; result <<line, rest>>
RECURSIVE FillLine(_, _, _, _)
FillLine(chunks, cur, cur_len, w) ==
  IF chunks # <<>> /\ cur_len + ChunkLen(Head(chunks)) <= w
  THEN FillLine(Tail(chunks), Append(cur, Head(chunks)),
                cur_len + ChunkLen(Head(chunks)), w)
  ELSE <<cur, chunks>>

\* _handle_long_word with break_long_words: result <<line, rest>>
HandleLongWord(cur, chunks, w) ==
  IF chunks # <<>> /\ ChunkLen(Head(chunks)) > w
  THEN LET space_left == IF w < 1 THEN 1 ELSE w - SumLen(cur)
       IN <<Append(cur, space_left),
            <<Head(chunks) - space_left>> \o Tail(chunks)>>
  ELSE <<cur, chunks>>

DropTrailingBlank(cur) ==
  IF cur # <<>> /\ IsBlank(cur[Len(cur)]) THEN SubSeq(cur, 1, Len(cur) - 1) ELSE cur

RECURSIVE WrapChunks(_, _, _)
WrapChunks(chunks, w, lines) ==
  IF chunks = <<>> THEN lines
  ELSE LET c0 == IF IsBlank(Head(chunks)) /\ lines # <<>> THEN Tail(chunks) ELSE chunks
           f == FillLine(c0, <<>>, 0, w)
           h == HandleLongWord(f[1], f[2], w)
           cur == DropTrailingBlank(h[1])
       IN WrapChunks(h[2], w, IF cur # <<>> THEN Append(lines, SumLen(cur)) ELSE lines)

Wrap(words, w) == WrapChunks(Chunks(words), w, <<>>)

\* f"{i+1}. {risk_name}": the number and the dot are one word of 2 characters
Numbered(k, name) == <<DigitsLen(k) + 1>> \o name

disclaimer_text == <<4, 6, 2, 3, 13, 8, 5, 2, 4, 3, 9>>

(***************************************************************************)
(* Inputs of a call.                                                       *)
(***************************************************************************)
Scores == {0, 33, 34, 50, 66, 67, 85, 100}

MintAuthority ==
  [name |-> << <<4, 9, 7>> >>, level |-> <<"danger">>, value |-> <<"">>, score |-> <<90>>]
LongName ==
  [name |-> << <<20, 20, 20, 20, 20, 20>> >>, level |-> <<"warning">>, value |-> <<"12%">>,
   score |-> <<300>>]
NoKeys ==
  [name |-> <<>>, level |-> <<>>, value |-> <<>>, score |-> <<>>]

Findings == {MintAuthority, LongName, NoKeys}

RiskLists == UNION {[1..n -> Findings] : n \in 0..MaxRisks}

Reports ==
  [normalized_score : {<<>>} \cup {<<s>> : s \in Scores},
   risks : {<<>>} \cup {<<l>> : l \in RiskLists}]

Addr(n) == [k \in 1..n |-> k]
Addresses == {Addr(n) : n \in {4, 20, 21, 44}}

Times == {1, 2}

(***************************************************************************)
(* Fonts.  ImageFont.truetype yields the four named handles,               *)
(* ImageFont.load_default the bitmap default font.  textbbox((0, 0), text, *)
(* font) is (0, 0, width, height): the height is the line height of the    *)
(* font and the width grows with the number of characters.                 *)
(***************************************************************************)
FontNames == {"title", "header", "normal", "small", "default"}

FontProfiles ==
  { [title |-> <<31, 37>>, header |-> <<22, 27>>, normal |-> <<17, 21>>,
     small |-> <<12, 15>>, default |-> <<6, 11>>],
    [title |-> <<33, 47>>, header |-> <<24, 34>>, normal |-> <<18, 26>>,
     small |-> <<13, 19>>, default |-> <<6, 11>>] }

NoFonts == [title_font |-> "", header_font |-> "", normal_font |-> "", small_font |-> ""]
TrueTypeFonts ==
  [title_font |-> "title", header_font |-> "header", normal_font |-> "normal",
   small_font |-> "small"]
DefaultFonts ==
  [title_font |-> "default", header_font |-> "default", normal_font |-> "default",
   small_font |-> "default"]

TextBBox(m, text, font) ==
  IF text.len = 0 THEN <<0, 0, 0, 0>> ELSE <<0, 0, text.len * m[font][1], m[font][2]>>

(***************************************************************************)
(* Severity tier of the normalized score: the label and the gauge colour   *)
(* of the image, and the label of the text summary.                        *)
(***************************************************************************)
\* RiskLevel with the upper boundary taken as >=
RiskLevelInclusive(score) ==
  IF score >= 66 THEN "HIGH RISK" ELSE IF score > 33 THEN "MEDIUM RISK" ELSE "LOW RISK"

RiskLevel(score) ==
  IF score > 66 THEN "HIGH RISK" ELSE IF score > 33 THEN "MEDIUM RISK" ELSE "LOW RISK"

ScoreColor(score) ==
  IF score > 66 THEN red ELSE IF score > 33 THEN yellow ELSE green

TextRiskLevel(score) ==
  IF score > 66 THEN "HIGH RISK" ELSE IF score > 33 THEN "MEDIUM RISK" ELSE "LOW RISK"

LevelColor(risk_level) ==
  IF risk_level = "DANGER" THEN red ELSE IF risk_level = "WARNING" THEN yellow ELSE blue

\* ShortAddress that shortens from 20 characters on
ShortAddressFrom20(token_address) ==
  IF Len(token_address) >= 20
  THEN SliceTo(token_address, 6) \o Dots \o SliceLast(token_address, 6)
  ELSE token_address

\* short_address of the image
ShortAddress(token_address) ==
  IF Len(token_address) > 20
  THEN SliceTo(token_address, 6) \o Dots \o SliceLast(token_address, 6)
  ELSE token_address

\* the token of the text summary
TextAddress(token_address) ==
  SliceTo(token_address, 6) \o Dots \o SliceLast(token_address, 4)

\* start_angle and end_angle of the progress arc, in tenths of a degree
start_angle == 900

\* EndAngle sweeping the other way
EndAngleReversed(score) == start_angle + score * 36

EndAngle(score) == start_angle - score * 36

\* FinalHeight without the minimum height
FinalHeightNoMinimum(y) == y

FinalHeight(y) == Max(min_height, y)

\* the level line of a finding
RiskText(risk) ==
  LET risk_level == Upper(DictGet(risk.level, "unknown"))
      risk_value == DictGet(risk.value, "")
  IN IF risk_value # ""
     THEN Text("Level: () ", risk_level, risk_value, <<>>,
               7 + StrLen(risk_level) + 3 + StrLen(risk_value))
     ELSE Text("Level: ", risk_level, "", <<>>, 7 + StrLen(risk_level))

\* the font and the lines of the numbered name of a finding
NameWidth == content_width \div 20
SmallNameWidth == content_width \div 15

NamePlan(k, risk, fonts) ==
  LET text == Numbered(k, DictGet(risk.name, <<7, 4>>))
      wrapped_name == Wrap(text, NameWidth)
  IN IF Len(wrapped_name) > 2
     THEN [font |-> fonts.small_font, lines |-> Wrap(text, SmallNameWidth)]
     ELSE [font |-> fonts.normal_font, lines |-> wrapped_name]

(***************************************************************************)
(* State.  The inputs of the call, the locals of create_report_image       *)
(* (under their names), the canvas and what was drawn on it, the file that *)
(* was saved, the log and the outcome of the two calls.                    *)
(***************************************************************************)
VARIABLES
  report_data, token_address,     \* the arguments
  pc,                             \* position in create_report_image
  metrics,                        \* metrics of the fonts of this run
  fonts,                          \* title_font, header_font, normal_font, small_font
  image,                          \* size of the canvas `draw` draws on
  drawn,                          \* the draw calls made on that canvas, in order
  y_position,
  title_height, address_height, timestamp_height, risk_label_height,
  address_text, current_time,
  score, risk_level, risks,
  i,                              \* loop variable of the draw pass, Unbound until then
  measured_rows,                  \* findings the measure loop has gone through
  final_height,
  measure_trace, draw_trace,      \* offset after each section of either pass
  measure_plans, draw_plans,      \* font and lines chosen for each name, per pass
  saved,                          \* size of created_image.png, <<>> if not written
  log,                            \* logging calls of create_report_image
  result,                         \* outcome of create_report_image
  report_text,                    \* outcome of create_report_text
  background,                     \* colour of each scanline of the canvas, top down
  calls,                          \* number of calls of create_report_image so far
  previous,                       \* what the call before this one produced
  active,                         \* calls of create_report_image begun and not ended
  bot_pc,                         \* position in respondToTweet, "none" without the bot
  feed,                           \* the mentions Twitter holds for the bot
  mentions,                       \* mentions.data of this batch
  mention_no,                     \* index of the mention the loop is at
  branch,                         \* "wallet" or "keyword": the branch that renders
  reply_text,                     \* the parts added to reply_text so far
  replies,                        \* the tweets create_tweet has posted, in order
  bot_log,                        \* logging calls of respondToTweet
  newest_id, last_id,
  returned_id,                    \* what respondToTweet returned
  requests,                       \* the calls made for mentions: RugCheck, render, upload
  cycle,                          \* number of the poll cycle of main, 0 without the bot
  file                            \* content of last_id.txt, <<>> if there is none

vars ==
  <<report_data, token_address, pc, metrics, fonts, image, drawn, y_position,
    title_height, address_height, timestamp_height, risk_label_height,
    address_text, current_time, score, risk_level, risks, i, measured_rows,
    final_height, measure_trace, draw_trace, measure_plans, draw_plans,
    saved, log, result, report_text, background, calls, previous, active,
    bot_pc, feed, mentions, mention_no, branch, reply_text, replies, bot_log,
    newest_id, last_id, returned_id, requests, cycle, file>>

callVars == <<calls, previous>>
botVars ==
  <<bot_pc, feed, mentions, mention_no, branch, reply_text, replies, bot_log, newest_id,
    last_id, returned_id, requests, cycle, file>>
planVars == <<measure_plans, draw_plans>>
inputVars == <<report_data, token_address, callVars, botVars>>
fontVars == <<metrics, fonts>>
canvasVars == <<image, drawn, background>>
heightVars == <<title_height, address_height, timestamp_height, risk_label_height>>
gaugeVars == <<score, risk_level, risks>>
outVars == <<saved, log, result, active>>

NoResult == [status |-> "none", value |-> ""]
Returned(path) == [status |-> "returned", value |-> path]
Raised(cause) == [status |-> "raised", value |-> cause]

NoPrevious ==
  [fonts |-> NoFonts, current_time |-> 0, final_height |-> 0, drawn |-> <<>>,
   background |-> <<>>, result |-> NoResult]

NoReportText ==
  [status |-> "none", token |-> <<>>, score |-> 0, risk_level |-> "", rows |-> <<>>]

NoReplyText == [parts |-> <<>>, summary |-> 0]

Init ==
  /\ report_data \in Reports
  /\ token_address \in Addresses
  /\ pc = "text"
  /\ metrics \in FontProfiles
  /\ fonts = NoFonts
  /\ image = <<>>
  /\ drawn = <<>>
  /\ y_position = 0
  /\ title_height = 0
  /\ address_height = 0
  /\ timestamp_height = 0
  /\ risk_label_height = 0
  /\ address_text = NoText
  /\ current_time = 0
  /\ score = 0
  /\ risk_level = ""
  /\ risks = <<>>
  /\ i = Unbound
  /\ measured_rows = 0
  /\ final_height = 0
  /\ measure_trace = <<>>
  /\ draw_trace = <<>>
  /\ measure_plans = <<>>
  /\ draw_plans = <<>>
  /\ saved = <<>>
  /\ log = <<>>
  /\ result = NoResult
  /\ report_text = NoReportText
  /\ background = <<>>
  /\ calls = 1
  /\ previous = NoPrevious
  /\ active = 0
  /\ bot_pc = "none"
  /\ feed = <<>>
  /\ mentions = <<>>
  /\ mention_no = 0
  /\ branch = ""
  /\ reply_text = NoReplyText
  /\ replies = <<>>
  /\ bot_log = <<>>
  /\ newest_id = 0
  /\ last_id = 0
  /\ returned_id = 0
  /\ requests = <<>>
  /\ cycle = 0
  /\ file = <<>>

\* NewCanvas that keeps what the canvas before it held
ReusedCanvas(content) == content

\* Image.new and ImageDraw.Draw: nothing is drawn on a new canvas
NewCanvas(content) == <<>>

Mark(trace, section, y) == Append(trace, [section |-> section, y |-> y])

\* Raise that does not log the failure
RaiseUnlogged(cause) ==
  /\ pc' = "raised"
  /\ log' = log
  /\ result' = Raised(cause)
  /\ active' = active - 1

\* except Exception as e: logging.error(...); raise
Raise(cause) ==
  /\ pc' = "raised"
  /\ log' = Append(log, "error")
  /\ result' = Raised(cause)
  /\ active' = active - 1

(***************************************************************************)
(* create_report_text (twitter.py).  report["risks"], risk['name'],        *)
(* risk['level'], risk['value'] and report["normalized_score"] are plain   *)
(* subscripts: a missing key raises KeyError.                              *)
(***************************************************************************)
TextRow(idx, risk) ==
  [n |-> idx + 1, name |-> risk.name[1], level |-> Upper(risk.level[1]),
   value |-> risk.value[1]]

HasTextKeys(risk) == risk.name # <<>> /\ risk.level # <<>> /\ risk.value # <<>>

CreateReportText ==
  /\ pc = "text"
  /\ pc' = "start"
  /\ IF /\ report_data.risks # <<>>
        /\ \A k \in 1..Len(SliceTo(report_data.risks[1], 3)) :
              HasTextKeys(report_data.risks[1][k])
        /\ report_data.normalized_score # <<>>
     THEN LET rs == SliceTo(report_data.risks[1], 3)
              sc == report_data.normalized_score[1]
          IN report_text' =
               [status |-> "returned",
                token |-> TextAddress(token_address),
                score |-> sc,
                risk_level |-> TextRiskLevel(sc),
                rows |-> [k \in 1..Len(rs) |-> TextRow(k - 1, rs[k])]]
     ELSE report_text' = [NoReportText EXCEPT !.status = "raised"]
  /\ UNCHANGED <<inputVars, fontVars, canvasVars, y_position, heightVars,
                 address_text, current_time, gaugeVars, i, measured_rows,
                 final_height, measure_trace, draw_trace, outVars, planVars>>

(***************************************************************************)
(* create_report_image, lines 24-30: the first canvas.                      *)
(***************************************************************************)
Begin ==
  /\ pc = "start"
  /\ bot_pc # "none" => report_text.status = "returned"
  /\ pc' = "fonts"
  /\ active' = active + 1
  /\ log' = Append(log, "info")
  /\ image' = <<width, min_height>>
  /\ drawn' = NewCanvas(drawn)
  /\ background' = NewCanvas(background)
  /\ UNCHANGED <<inputVars, fontVars, y_position, heightVars, address_text,
                 current_time, gaugeVars, i, measured_rows, final_height,
                 measure_trace, draw_trace, saved, result, report_text, planVars>>

(***************************************************************************)
(* Lines 32-43: the four fonts, or the default font for all four when one  *)
(* of the truetype calls raises IOError (failed = the call that raised,    *)
(* 0 if none).  load_default failing in turn ends the render.              *)
(***************************************************************************)
LoadFonts ==
  /\ pc = "fonts"
  /\ \E failed \in 0..4 :
       /\ fonts' = IF failed = 0 THEN TrueTypeFonts ELSE DefaultFonts
       /\ log' = IF failed = 0 THEN log ELSE Append(log, "warning")
  /\ pc' = "measure_title"
  /\ UNCHANGED <<inputVars, metrics, canvasVars, y_position, heightVars, address_text,
                 current_time, gaugeVars, i, measured_rows, final_height,
                 measure_trace, draw_trace, saved, result, active, report_text,
                 planVars>>

LoadFontsFail ==
  /\ pc = "fonts"
  /\ pc' = "raised"
  /\ log' = log \o <<"warning", "error">>
  /\ result' = Raised("OSError")
  /\ active' = active - 1
  /\ UNCHANGED <<inputVars, fontVars, canvasVars, y_position, heightVars,
                 address_text, current_time, gaugeVars, i, measured_rows,
                 final_height, measure_trace, draw_trace, saved, report_text, planVars>>

(***************************************************************************)
(* Measure pass, lines 61-129.                                             *)
(***************************************************************************)
title_text == Text("Token Risk Report", "", "", <<>>, 17)

Height(bbox) == bbox[4] - bbox[2]
Width(bbox) == bbox[3] - bbox[1]

MeasureTitle ==
  /\ pc = "measure_title"
  /\ LET h == Height(TextBBox(metrics, title_text, fonts.title_font))
         y == top_margin + h + vertical_spacing
     IN /\ title_height' = h
        /\ y_position' = y
        /\ measure_trace' = Mark(measure_trace, "title", y)
  /\ pc' = "measure_address"
  /\ UNCHANGED <<inputVars, fontVars, canvasVars, address_height, timestamp_height,
                 risk_label_height, address_text, current_time, gaugeVars, i,
                 measured_rows, final_height, draw_trace, outVars, report_text, planVars>>

AddressText(token_address_) ==
  LET short_address == ShortAddress(token_address_)
  IN Text("Address: ", "", "", short_address, 9 + Len(short_address))

MeasureAddress ==
  /\ pc = "measure_address"
  /\ LET t == AddressText(token_address)
         h == Height(TextBBox(metrics, t, fonts.normal_font))
         y == y_position + h + vertical_spacing
     IN /\ address_text' = t
        /\ address_height' = h
        /\ y_position' = y
        /\ measure_trace' = Mark(measure_trace, "address", y)
  /\ pc' = "measure_timestamp"
  /\ UNCHANGED <<inputVars, fontVars, canvasVars, title_height, timestamp_height,
                 risk_label_height, current_time, gaugeVars, i, measured_rows,
                 final_height, draw_trace, outVars, report_text, planVars>>

\* f"Generated: {current_time}", current_time formatted "%Y-%m-%d %H:%M:%S UTC"
TimestampText(t) == Text("Generated: ", "", "", <<t>>, 34)

MeasureTimestamp ==
  /\ pc = "measure_timestamp"
  /\ \E now \in Times :
       LET h == Height(TextBBox(metrics, TimestampText(now), fonts.small_font))
           y == y_position + h + vertical_spacing
       IN /\ current_time' = now
          /\ timestamp_height' = h
          /\ y_position' = y
          /\ measure_trace' = Mark(measure_trace, "timestamp", y)
  /\ pc' = "measure_gauge"
  /\ UNCHANGED <<inputVars, fontVars, canvasVars, title_height, address_height,
                 risk_label_height, address_text, gaugeVars, i, measured_rows,
                 final_height, draw_trace, outVars, report_text, planVars>>

LabelText(label) == Text("label", label, "", <<>>, StrLen(label))

\* lines 86-96: the gauge block, and the findings that will be rendered
MeasureGauge ==
  /\ pc = "measure_gauge"
  /\ LET sc == DictGet(report_data.normalized_score, 0)
         lvl == RiskLevel(sc)
         h == Height(TextBBox(metrics, LabelText(lvl), fonts.header_font))
         y == y_position + Max(circle_height, h) + vertical_spacing + 30
     IN /\ score' = sc
        /\ risk_level' = lvl
        /\ risk_label_height' = h
        /\ y_position' = y
        /\ measure_trace' = Mark(measure_trace, "gauge", y)
  /\ risks' = SliceTo(DictGet(report_data.risks, <<>>), 3)
  /\ pc' = "measure_risks"
  /\ UNCHANGED <<inputVars, fontVars, canvasVars, title_height, address_height,
                 timestamp_height, address_text, current_time, i, measured_rows,
                 final_height, draw_trace, outVars, report_text, planVars>>

\* the height the lines of a wrapped text add: bbox height + 5 per line
RECURSIVE LinesHeight(_, _, _)
LinesHeight(m, lines, font) ==
  IF lines = <<>> THEN 0
  ELSE Height(TextBBox(m, Text("line", "", "", <<>>, Head(lines)), font)) + 5
       + LinesHeight(m, Tail(lines), font)

\* lines 97-120, one finding.  Line 107 reads i, which the function binds
\* only in the draw loop (line 180): unbound here, it raises.
MeasureRisk ==
  /\ pc = "measure_risks"
  /\ measured_rows < Len(risks)
  /\ LET risk == risks[measured_rows + 1]
         risk_text == RiskText(risk)
     IN /\ risk_level' = Upper(DictGet(risk.level, "unknown"))
        /\ IF i = Unbound
           THEN /\ Raise("UnboundLocalError")
                /\ UNCHANGED <<y_position, measured_rows, measure_trace, measure_plans,
                               saved>>
           ELSE LET plan == NamePlan(i + 1, risk, fonts)
                    y == y_position
                         + LinesHeight(metrics, plan.lines, plan.font)
                         + Height(TextBBox(metrics, risk_text, fonts.normal_font)) + 5
                         + 30 + vertical_spacing
                IN /\ y_position' = y
                   /\ measured_rows' = measured_rows + 1
                   /\ measure_trace' = Mark(measure_trace, "row", y)
                   /\ measure_plans' = Append(measure_plans, plan)
                   /\ UNCHANGED <<pc, outVars>>
  /\ UNCHANGED <<inputVars, fontVars, canvasVars, heightVars, address_text,
                 current_time, score, risks, i, final_height, draw_trace, draw_plans,
                 report_text>>

DisclaimerWidth == content_width \div 10

\* lines 122-129
MeasureDisclaimer ==
  /\ pc = "measure_risks"
  /\ measured_rows = Len(risks)
  /\ LET wrapped_disclaimer == Wrap(disclaimer_text, DisclaimerWidth)
         y == y_position + LinesHeight(metrics, wrapped_disclaimer, fonts.small_font)
     IN /\ y_position' = y + bottom_margin
        /\ measure_trace' =
             Mark(Mark(Mark(measure_trace, "rows", y_position), "disclaimer", y),
                  "bottom", y + bottom_margin)
  /\ pc' = "allocate"
  /\ UNCHANGED <<inputVars, fontVars, canvasVars, heightVars, address_text,
                 current_time, gaugeVars, i, measured_rows, final_height, draw_trace,
                 outVars, report_text, planVars>>

(***************************************************************************)
(* Lines 131-144: the canvas of the final size, gradient and border.       *)
(***************************************************************************)
Op(op, xy, text, font, fill, arg) ==
  [op |-> op, xy |-> xy, text |-> text, font |-> font, fill |-> fill, arg |-> arg]

AllocCanvas ==
  /\ pc = "allocate"
  /\ final_height' = FinalHeight(y_position)
  /\ image' = <<width, FinalHeight(y_position)>>
  /\ drawn' = NewCanvas(drawn)
  /\ background' = NewCanvas(background)
  /\ pc' = "background"
  /\ UNCHANGED <<inputVars, fontVars, y_position, heightVars, address_text,
                 current_time, gaugeVars, i, measured_rows, measure_trace, draw_trace,
                 outVars, report_text, planVars>>

AllocCanvasFail ==
  /\ pc = "allocate"
  /\ Raise("MemoryError")
  /\ UNCHANGED <<inputVars, fontVars, canvasVars, y_position, heightVars,
                 address_text, current_time, gaugeVars, i, measured_rows,
                 final_height, measure_trace, draw_trace, saved, report_text, planVars>>

\* Gradient whose blue channel starts at 30 like the other two
GradientBlueFrom30(y, h) ==
  <<30 + (20 * y) \div h, 30 + (40 * y) \div h, 30 + (60 * y) \div h>>

\* the colour of scanline y on a canvas of height h
Gradient(y, h) ==
  <<30 + (20 * y) \div h, 30 + (40 * y) \div h, 40 + (60 * y) \div h>>

\* the scanlines the loop of lines 137-141 paints, top down
Scanlines(h) == [k \in 1..h |-> Gradient(k - 1, h)]

\* BackgroundOps that paints nothing
NoBackgroundOps(h) == <<>>

\* the draw calls of lines 137-144: the gradient lines (as one entry, with the
\* colour of the last scanline) and the border
BackgroundOps(h) ==
  << Op("gradient", <<0, 0, width, h - 1>>, NoText, "", Gradient(h - 1, h), <<h>>),
     Op("rectangle", <<10, 10, width - 10, h - 10>>, NoText, "",
        <<255, 255, 255, 50>>, <<2>>) >>

PaintBackground ==
  /\ pc = "background"
  /\ drawn' = drawn \o BackgroundOps(final_height)
  /\ background' = Scanlines(final_height)
  /\ pc' = "draw_title"
  /\ UNCHANGED <<inputVars, fontVars, image, y_position, heightVars, address_text,
                 current_time, gaugeVars, i, measured_rows, final_height,
                 measure_trace, draw_trace, outVars, report_text, planVars>>

(***************************************************************************)
(* Draw pass, lines 146-228.                                               *)
(***************************************************************************)
DrawTitle ==
  /\ pc = "draw_title"
  /\ LET y == top_margin
     IN /\ drawn' = drawn \o
             << Op("text", <<left_margin + 2, y + 2>>, title_text, fonts.title_font,
                   <<50, 50, 50>>, <<>>),
                Op("text", <<left_margin, y>>, title_text, fonts.title_font, white, <<>>) >>
        /\ y_position' = y + title_height + vertical_spacing
        /\ draw_trace' = Mark(draw_trace, "title", y + title_height + vertical_spacing)
  /\ pc' = "draw_address"
  /\ UNCHANGED <<inputVars, fontVars, image, background, heightVars, address_text, current_time,
                 gaugeVars, i, measured_rows, final_height, measure_trace, outVars,
                 report_text, planVars>>

DrawAddress ==
  /\ pc = "draw_address"
  /\ drawn' = Append(drawn, Op("text", <<left_margin, y_position>>, address_text,
                               fonts.normal_font, light_gray, <<>>))
  /\ y_position' = y_position + address_height + vertical_spacing
  /\ draw_trace' = Mark(draw_trace, "address", y_position + address_height + vertical_spacing)
  /\ pc' = "draw_timestamp"
  /\ UNCHANGED <<inputVars, fontVars, image, background, heightVars, address_text, current_time,
                 gaugeVars, i, measured_rows, final_height, measure_trace, outVars,
                 report_text, planVars>>

DrawTimestamp ==
  /\ pc = "draw_timestamp"
  /\ LET t == TimestampText(current_time)
         text_width == Width(TextBBox(metrics, t, fonts.small_font))
     IN drawn' = Append(drawn, Op("text", <<width - right_margin - text_width, y_position>>,
                                  t, fonts.small_font, light_gray, <<>>))
  /\ y_position' = y_position + timestamp_height + vertical_spacing
  /\ draw_trace' = Mark(draw_trace, "timestamp",
                        y_position + timestamp_height + vertical_spacing)
  /\ pc' = "draw_gauge"
  /\ UNCHANGED <<inputVars, fontVars, image, background, heightVars, address_text, current_time,
                 gaugeVars, i, measured_rows, final_height, measure_trace, outVars,
                 report_text, planVars>>

\* draw_progress_ring: the background arc, then the progress arc
draw_progress_ring(center, radius, thickness, score_, color) ==
  LET box == <<center[1] - radius, center[2] - radius, center[1] + radius, center[2] + radius>>
  IN << Op("arc", box, NoText, "", <<100, 100, 100>>, <<0, 3600, thickness>>),
        Op("arc", box, NoText, "", color, <<start_angle, EndAngle(score_), thickness>>) >>

\* lines 164-174
DrawGauge ==
  /\ pc = "draw_gauge"
  /\ LET score_color == ScoreColor(score)
         circle_center == <<left_margin + circle_radius + 20, y_position + circle_radius>>
         score_text == Text("score", "", "", <<score>>, DigitsLen(score))
         bbox == TextBBox(metrics, score_text, fonts.header_font)
         w == Width(bbox)
         h == Height(bbox)
     IN drawn' = drawn
          \o draw_progress_ring(circle_center, circle_radius, 10, score, score_color)
          \o << Op("text", <<circle_center[1] - w \div 2, circle_center[2] - h \div 2>>,
                   score_text, fonts.header_font, score_color, <<>>),
                Op("text", <<left_margin + circle_radius * 2 + 60,
                             y_position + circle_radius - risk_label_height \div 2>>,
                   LabelText(risk_level), fonts.header_font, score_color, <<>>) >>
  /\ y_position' = y_position + circle_height + vertical_spacing + 30
  /\ draw_trace' = Mark(draw_trace, "gauge",
                        y_position + circle_height + vertical_spacing + 30)
  /\ pc' = "draw_risks"
  /\ UNCHANGED <<inputVars, fontVars, image, background, heightVars, address_text, current_time,
                 gaugeVars, i, measured_rows, final_height, measure_trace, outVars,
                 report_text, planVars>>

\* the text calls of the lines of a name, from offset y on
RECURSIVE NameOps(_, _, _, _, _)
NameOps(m, lines, font, y, n) ==
  IF lines = <<>> THEN <<>>
  ELSE LET t == Text("line", "", "", <<n>>, Head(lines))
       IN <<Op("text", <<left_margin + 20, y>>, t, font, white, <<>>)>>
          \o NameOps(m, Tail(lines), font, y + Height(TextBBox(m, t, font)) + 5, n)

\* lines 181-212 for the finding at index k (from 0): the state after the row
DrawRow(st, k, risk, m, fs) ==
  LET lvl == Upper(DictGet(risk.level, "unknown"))
      risk_score == DictGet(risk.score, 0)
      level_color == LevelColor(lvl)
      plan == NamePlan(k + 1, risk, fs)
      y1 == st.y + LinesHeight(m, plan.lines, plan.font)
      risk_text == RiskText(risk)
      y2 == y1 + Height(TextBBox(m, risk_text, fs.normal_font)) + 5
      bar_width == Min(content_width - 100, risk_score * 4)
  IN [y |-> y2 + 40 + vertical_spacing,
      i |-> k,
      risk_level |-> lvl,
      ops |-> st.ops
              \o NameOps(m, plan.lines, plan.font, st.y, k + 1)
              \o << Op("text", <<left_margin + 40, y1>>, risk_text, fs.normal_font,
                       level_color, <<k + 1>>),
                    Op("rounded_rectangle",
                       <<left_margin + 40, y2 + 10, left_margin + 40 + bar_width, y2 + 30>>,
                       NoText, "", level_color, <<5, k + 1>>) >>,
      trace |-> Mark(st.trace, "row", y2 + 40 + vertical_spacing),
      plans |-> Append(st.plans, plan)]

\* for i, risk in enumerate(risks), from index k on
RECURSIVE DrawRows(_, _, _, _, _)
DrawRows(st, k, rs, m, fs) ==
  IF k >= Len(rs) THEN st
  ELSE DrawRows(DrawRow(st, k, rs[k + 1], m, fs), k + 1, rs, m, fs)

\* HeaderOps that leaves the header out when there is no finding
HeaderOpsIfRisks(y, fs, rs) ==
  IF rs = <<>> THEN <<>>
  ELSE <<Op("text", <<left_margin, y>>, Text("Top Risks:", "", "", <<>>, 10),
            fs.header_font, white, <<>>)>>

\* line 177
HeaderOps(y, fs, rs) ==
  <<Op("text", <<left_margin, y>>, Text("Top Risks:", "", "", <<>>, 10),
       fs.header_font, white, <<>>)>>

\* lines 176-212: the header and the loop over the findings
DrawRisks ==
  /\ pc = "draw_risks"
  /\ LET y0 == y_position + risk_label_height + vertical_spacing
         st0 == [y |-> y0, i |-> i, risk_level |-> risk_level,
                 ops |-> drawn \o HeaderOps(y_position, fonts, risks),
                 trace |-> Mark(draw_trace, "header", y0),
                 plans |-> draw_plans]
         st == DrawRows(st0, 0, risks, metrics, fonts)
     IN /\ y_position' = st.y
        /\ i' = st.i
        /\ risk_level' = st.risk_level
        /\ drawn' = st.ops
        /\ draw_trace' = Mark(st.trace, "rows", st.y)
        /\ draw_plans' = st.plans
  /\ pc' = "draw_bottom"
  /\ UNCHANGED <<inputVars, fontVars, image, background, heightVars, address_text, current_time,
                 score, risks, measured_rows, final_height, measure_trace,
                 measure_plans, outVars, report_text>>

\* the disclaimer lines, 25 apart from disclaimer_y on, right-aligned
RECURSIVE DisclaimerOps(_, _, _, _)
DisclaimerOps(m, lines, font, disclaimer_y) ==
  IF lines = <<>> THEN <<>>
  ELSE LET t == Text("disclaimer", "", "", <<>>, Head(lines))
           text_width == Width(TextBBox(m, t, font))
       IN <<Op("text", <<width - right_margin - text_width, disclaimer_y>>, t, font,
               light_gray, <<>>)>>
          \o DisclaimerOps(m, Tail(lines), font, disclaimer_y + 25)

\* DisclaimerY without the bottom margin
DisclaimerYNoMargin(h, n) == h - n * 25

DisclaimerY(h, n) == h - bottom_margin - n * 25

WatermarkY(h) == h - bottom_margin - 20

\* lines 214-228
DrawBottom ==
  /\ pc = "draw_bottom"
  /\ LET wrapped_disclaimer == Wrap(disclaimer_text, DisclaimerWidth)
     IN drawn' = drawn
          \o DisclaimerOps(metrics, wrapped_disclaimer, fonts.small_font,
                           DisclaimerY(final_height, Len(wrapped_disclaimer)))
          \o << Op("text", <<left_margin, WatermarkY(final_height)>>,
                   Text("Powered by Sniffr", "", "", <<>>, 17), fonts.small_font,
                   light_gray, <<>>) >>
  /\ pc' = "save"
  /\ UNCHANGED <<inputVars, fontVars, image, background, y_position, heightVars, address_text,
                 current_time, gaugeVars, i, measured_rows, final_height,
                 measure_trace, draw_trace, outVars, report_text, planVars>>

\* lines 230-233
Save ==
  /\ pc = "save"
  /\ saved' = image
  /\ log' = Append(log, "info")
  /\ result' = Returned("created_image.png")
  /\ active' = active - 1
  /\ pc' = "returned"
  /\ UNCHANGED <<inputVars, fontVars, canvasVars, y_position, heightVars,
                 address_text, current_time, gaugeVars, i, measured_rows,
                 final_height, measure_trace, draw_trace, report_text, planVars>>

SaveFail ==
  /\ pc = "save"
  /\ Raise("OSError")
  /\ UNCHANGED <<inputVars, fontVars, canvasVars, y_position, heightVars,
                 address_text, current_time, gaugeVars, i, measured_rows,
                 final_height, measure_trace, draw_trace, saved, report_text, planVars>>

\* an ImageDraw call of lines 137-228 raises
DrawSteps ==
  {"background", "draw_title", "draw_address", "draw_timestamp", "draw_gauge",
   "draw_risks", "draw_bottom"}

DrawFail ==
  /\ pc \in DrawSteps
  /\ Raise("ValueError")
  /\ UNCHANGED <<inputVars, fontVars, canvasVars, y_position, heightVars,
                 address_text, current_time, gaugeVars, i, measured_rows,
                 final_height, measure_trace, draw_trace, saved, report_text, planVars>>

Next ==
  \/ CreateReportText
  \/ Begin
  \/ LoadFonts
  \/ LoadFontsFail
  \/ MeasureTitle
  \/ MeasureAddress
  \/ MeasureTimestamp
  \/ MeasureGauge
  \/ MeasureRisk
  \/ MeasureDisclaimer
  \/ AllocCanvas
  \/ AllocCanvasFail
  \/ PaintBackground
  \/ DrawTitle
  \/ DrawAddress
  \/ DrawTimestamp
  \/ DrawGauge
  \/ DrawRisks
  \/ DrawBottom
  \/ DrawFail
  \/ Save
  \/ SaveFail

Spec == Init /\ [][Next]_vars

(***************************************************************************)
(* A caller that calls create_report_image again with the same arguments,  *)
(* on a machine where memory and the disk do not fail.  The locals of the  *)
(* call that ended are gone; the file and the log stay.                    *)
(***************************************************************************)
RepeatReports ==
  [normalized_score : {<<85>>},
   risks : {<<>>, << <<>> >>, << <<MintAuthority>> >>}]

RepeatInit ==
  /\ Init
  /\ report_data \in RepeatReports
  /\ token_address = Addr(44)

\* the locals of a call that ended are gone
ResetLocals ==
  /\ fonts' = NoFonts
  /\ y_position' = 0
  /\ title_height' = 0
  /\ address_height' = 0
  /\ timestamp_height' = 0
  /\ risk_label_height' = 0
  /\ address_text' = NoText
  /\ current_time' = 0
  /\ score' = 0
  /\ risk_level' = ""
  /\ risks' = <<>>
  /\ i' = Unbound
  /\ measured_rows' = 0
  /\ final_height' = 0
  /\ measure_trace' = <<>>
  /\ draw_trace' = <<>>
  /\ measure_plans' = <<>>
  /\ draw_plans' = <<>>
  /\ result' = NoResult

CallAgain ==
  /\ pc \in {"returned", "raised"}
  /\ calls < MaxCalls
  /\ calls' = calls + 1
  /\ previous' =
       [fonts |-> fonts, current_time |-> current_time, final_height |-> final_height,
        drawn |-> drawn, background |-> background, result |-> result]
  /\ pc' = "start"
  /\ ResetLocals
  /\ UNCHANGED <<report_data, token_address, metrics, canvasVars, saved, log,
                 active, report_text, botVars>>

RepeatNext ==
  \/ CreateReportText
  \/ Begin
  \/ LoadFonts
  \/ MeasureTitle
  \/ MeasureAddress
  \/ MeasureTimestamp
  \/ MeasureGauge
  \/ MeasureRisk
  \/ MeasureDisclaimer
  \/ AllocCanvas
  \/ PaintBackground
  \/ DrawTitle
  \/ DrawAddress
  \/ DrawTimestamp
  \/ DrawGauge
  \/ DrawRisks
  \/ DrawBottom
  \/ Save
  \/ CallAgain

RepeatSpec == RepeatInit /\ [][RepeatNext]_vars

(***************************************************************************)
(* respondToTweet (twitter.py, lines 226-409): one batch of mentions,      *)
(* handled one after the other by the one thread of the bot.  A call of    *)
(* client.create_tweet, api.media_upload, client.get_user or of the        *)
(* RugCheck API either succeeds or raises.                                 *)
(***************************************************************************)
MaxMentions == 2

\* the answers of the report endpoint: <<>> is an HTTP or network error
ShortSummary == [score_normalised |-> <<85>>, risks |-> << <<MintAuthority>> >>]
LongSummary ==
  [score_normalised |-> <<50>>, risks |-> << <<LongName, LongName, LongName>> >>]
KeylessSummary == [score_normalised |-> <<20>>, risks |-> << <<NoKeys>> >>]
NoRisksSummary == [score_normalised |-> <<85>>, risks |-> << <<>> >>]
ZeroScoreSummary == [score_normalised |-> <<0>>, risks |-> << <<MintAuthority>> >>]
Responses ==
  {<<>>, <<ShortSummary>>, <<LongSummary>>, <<KeylessSummary>>, <<NoRisksSummary>>,
   <<ZeroScoreSummary>>}

\* get_tokenreport without the test of line 30
get_tokenreportUnfiltered(response) ==
  IF response = <<>> THEN <<>>
  ELSE LET res == response[1]
       IN << [normalized_score |-> <<DictGet(res.score_normalised, 0)>>,
              risks |-> <<DictGet(res.risks, <<>>)>>] >>

\* get_tokenreport, lines 20-58: None is <<>>
get_tokenreport(response) ==
  IF response = <<>> THEN <<>>
  ELSE LET res == response[1]
           res_risks == DictGet(res.risks, <<>>)
           normalized_score == DictGet(res.score_normalised, 0)
       IN IF res_risks = <<>> \/ normalized_score = 0 THEN <<>>
          ELSE << [normalized_score |-> <<normalized_score>>, risks |-> <<res_risks>>] >>

\* what the text of a mention makes of it.  vote: extract_vote_request finds a
\* token address and a vote phrase (lines 273, 277); kind: the suspicious-wallet
\* pattern matches (lines 272, 307), or a keyword with a token address, a
\* keyword without one, or no keyword (lines 362-364)
MentionKinds == {"wallet", "keyword", "no_token", "other"}

MentionShapes ==
  [vote : {FALSE}, kind : {"no_token", "other"}, known_user : {TRUE}, response : {<<>>}]
    \cup [vote : {FALSE}, kind : {"keyword"}, known_user : {TRUE}, response : Responses]
    \cup [vote : {FALSE}, kind : {"keyword"}, known_user : {FALSE},
          response : {<<ShortSummary>>}]
    \cup [vote : {FALSE}, kind : {"wallet"}, known_user : {TRUE},
          response : {<<>>, <<ShortSummary>>, <<KeylessSummary>>}]
    \cup [vote : {TRUE}, kind : {"wallet", "keyword"}, known_user : {TRUE},
          response : {<<ShortSummary>>}]
    \cup [vote : {TRUE}, kind : {"other"}, known_user : {FALSE},
          response : {<<ShortSummary>>}]

BranchWalletFirst(shape) ==
  IF shape.kind = "wallet" THEN "wallet" ELSE IF shape.vote THEN "vote" ELSE "keyword"

\* the tests of lines 277, 307 and 358, in this order
Branch(shape) ==
  IF shape.vote THEN "vote" ELSE IF shape.kind = "wallet" THEN "wallet" ELSE "keyword"

\* the ids of a batch of n mentions newer than mention 1, newest or oldest first
MentionId(order, k, n) == IF order = "newest first" THEN 2 + n - k ELSE 1 + k

FeedsOf(shape_set) ==
  UNION {{[k \in 1..n |-> [id |-> MentionId(order, k, n), shape |-> shapes[k]]] :
            shapes \in [1..n -> shape_set],
            order \in {"newest first", "oldest first"}} : n \in 0..MaxMentions}

Feeds == FeedsOf(MentionShapes)

\* the renderer at rest and respondToTweet about to be called for the first time
BotStart ==
  /\ report_data = [normalized_score |-> <<>>, risks |-> <<>>]
  /\ token_address = Addr(44)
  /\ pc = "idle"
  /\ metrics = CHOOSE m \in FontProfiles : TRUE
  /\ fonts = NoFonts
  /\ image = <<>>
  /\ drawn = <<>>
  /\ y_position = 0
  /\ title_height = 0
  /\ address_height = 0
  /\ timestamp_height = 0
  /\ risk_label_height = 0
  /\ address_text = NoText
  /\ current_time = 0
  /\ score = 0
  /\ risk_level = ""
  /\ risks = <<>>
  /\ i = Unbound
  /\ measured_rows = 0
  /\ final_height = 0
  /\ measure_trace = <<>>
  /\ draw_trace = <<>>
  /\ measure_plans = <<>>
  /\ draw_plans = <<>>
  /\ saved = <<>>
  /\ log = <<>>
  /\ result = NoResult
  /\ report_text = NoReportText
  /\ background = <<>>
  /\ calls = 1
  /\ previous = NoPrevious
  /\ active = 0
  /\ bot_pc = "fetch"
  /\ mentions = <<>>
  /\ mention_no = 0
  /\ branch = ""
  /\ reply_text = NoReplyText
  /\ replies = <<>>
  /\ bot_log = <<>>
  /\ newest_id = 0
  /\ returned_id = 0
  /\ requests = <<>>
  /\ cycle = 1

\* one call respondToTweet(1)
BotInit ==
  /\ BotStart
  /\ feed \in Feeds
  /\ last_id = 1
  /\ file = <<>>

localVars ==
  <<fonts, y_position, heightVars, address_text, current_time, gaugeVars, i,
    measured_rows, final_height, measure_trace, draw_trace, planVars, result>>
keptVars == <<metrics, canvasVars, saved, log, active, callVars>>
rendererVars == <<report_data, token_address, pc, report_text, localVars, keptVars>>

mention == mentions[mention_no]

\* logging.error / warning / info of respondToTweet, with the mention it is about
LogTo(logged, event) == Append(logged, [event |-> event, id |-> mention.id])
Logged(event) == LogTo(bot_log, event)

\* a call made while the loop is at this mention
Requested(made, api) == Append(made, [api |-> api, id |-> mention.id, cycle |-> cycle])

\* reply_text += ...
Add(text, part) == [text EXCEPT !.parts = Append(@, part)]

\* a tweet posted by create_tweet(text=..., in_reply_to_tweet_id=mention.id)
Reply(text, media) ==
  [to |-> mention.id, parts |-> text.parts, summary |-> text.summary, media |-> media,
   cycle |-> cycle]

\* the for loop goes to its next mention
Continue ==
  /\ mention_no' = mention_no + 1
  /\ bot_pc' = "mention"
  /\ UNCHANGED <<feed, mentions, newest_id, last_id, returned_id, cycle, file>>

\* an exception leaves the loop: lines 405-409
Abandon(logged) ==
  /\ bot_log' = LogTo(logged, "Error retrieving mentions")
  /\ returned_id' = last_id
  /\ bot_pc' = "done"
  /\ UNCHANGED <<feed, mentions, mention_no, newest_id, last_id, cycle, file>>

\* len(report_text) of create_report_text, lines 145-147
RECURSIVE WordsLen(_)
WordsLen(words) ==
  IF words = <<>> THEN 0
  ELSE Head(words) + (IF Len(words) > 1 THEN 1 ELSE 0) + WordsLen(Tail(words))

RowLen(row) ==
  DigitsLen(row.n) + 2 + WordsLen(row.name) + 2 + StrLen(row.level)
    + (IF row.value # "" THEN 3 + StrLen(row.value) ELSE 0) + 1

RECURSIVE RowsLen(_)
RowsLen(rows) == IF rows = <<>> THEN 0 ELSE RowLen(Head(rows)) + RowsLen(Tail(rows))

SummaryLen(text) ==
  7 + Len(text.token) + 1
    + 12 + DigitsLen(text.score) + 6 + StrLen(text.risk_level) + 3
    + 11 + RowsLen(text.rows)

\* report_text[:240] that keeps the whole text
TruncateNone(len) == len

\* len(report_text[:240])
Truncate(len) == Min(240, len)

\* get_users_mentions with since_id, lines 240-243: the mentions newer than last_id
Since(timeline, id) == SelectSeq(timeline, LAMBDA m : m.id > id)

\* lines 229-255
Fetch ==
  /\ bot_pc = "fetch"
  /\ \E fetched \in BOOLEAN :
       IF ~fetched
       THEN /\ bot_log' = Append(bot_log, [event |-> "Error retrieving mentions", id |-> 0])
            /\ returned_id' = last_id
            /\ bot_pc' = "done"
            /\ UNCHANGED <<mentions, mention_no, newest_id>>
       ELSE IF Since(feed, last_id) = <<>>
       THEN /\ bot_log' = Append(bot_log, [event |-> "No new mentions found", id |-> 0])
            /\ returned_id' = last_id
            /\ bot_pc' = "done"
            /\ UNCHANGED <<mentions, mention_no, newest_id>>
       ELSE /\ bot_log' = Append(bot_log, [event |-> "Found new mentions", id |-> 0])
            /\ mentions' = Since(feed, last_id)
            /\ mention_no' = 1
            /\ newest_id' = last_id
            /\ bot_pc' = "mention"
            /\ UNCHANGED returned_id
  /\ UNCHANGED <<feed, last_id, branch, reply_text, replies, requests, cycle, file,
                 rendererVars>>

\* lines 257-275 and the tests of lines 277, 307 and 358
StartMention ==
  /\ bot_pc = "mention"
  /\ mention_no <= Len(mentions)
  /\ newest_id' = Max(newest_id, mention.id)
  /\ \E found \in BOOLEAN :
       IF ~mention.shape.known_user /\ ~found
       THEN /\ bot_log' = Logged("Could not get username")
            /\ mention_no' = mention_no + 1
            /\ bot_pc' = "mention"
            /\ UNCHANGED <<reply_text, branch>>
       ELSE /\ bot_log' = Logged("Processing mention")
            /\ reply_text' = Add(NoReplyText, "@username ")
            /\ bot_pc' = Branch(mention.shape)
            /\ branch' = Branch(mention.shape)
            /\ UNCHANGED mention_no
  /\ UNCHANGED <<feed, mentions, last_id, returned_id, replies, requests, cycle, file,
                 rendererVars>>

\* lines 277-305
Vote ==
  /\ bot_pc = "vote"
  /\ \E outcome \in {"recorded", "failed", "raised"}, posted, posted_again \in BOOLEAN :
       LET text == IF outcome = "recorded" THEN Add(reply_text, "Vote recorded")
                   ELSE IF outcome = "failed" THEN Add(reply_text, "Failed to vote")
                   ELSE reply_text
           error_text == Add(text, "An error occurred while processing your vote request.")
       IN IF outcome # "raised" /\ posted
          THEN /\ replies' = Append(replies, Reply(text, <<>>))
               /\ reply_text' = text
               /\ bot_log' = Logged(IF outcome = "recorded"
                                    THEN "Successfully replied to vote request"
                                    ELSE "Vote failed")
               /\ Continue
          ELSE /\ reply_text' = error_text
               /\ IF posted_again
                  THEN /\ replies' = Append(replies, Reply(error_text, <<>>))
                       /\ bot_log' = Logged("Unexpected error when voting")
                       /\ Continue
                  ELSE /\ replies' = replies
                       /\ Abandon(Logged("Unexpected error when voting"))
  /\ requests' = Requested(requests, "vote_token")
  /\ UNCHANGED <<branch, rendererVars>>

\* lines 351-357: the handler of the wallet branch
WalletExcept(text, logged, posted_again) ==
  LET error_text == Add(text, "An error occurred while processing your request.")
  IN /\ reply_text' = error_text
     /\ IF posted_again
        THEN /\ replies' = Append(replies, Reply(error_text, <<>>))
             /\ bot_log' = LogTo(logged, "Unexpected error when processing")
             /\ Continue
        ELSE /\ replies' = replies
             /\ Abandon(LogTo(logged, "Unexpected error when processing"))

\* lines 324 and 367: create_report_text is called, create_report_image after it
StartRender(text, report, made) ==
  /\ reply_text' = text
  /\ requests' = made
  /\ report_data' = report
  /\ token_address' = Addr(44)
  /\ pc' = "text"
  /\ bot_pc' = "render"
  /\ UNCHANGED <<feed, mentions, mention_no, newest_id, last_id, returned_id, replies,
                 bot_log, cycle, file, report_text, localVars, keptVars>>

\* lines 307-323 and 344-357
Wallet ==
  /\ bot_pc = "wallet"
  /\ LET text == Add(reply_text, "Wallet holdings")
         report == get_tokenreport(mention.shape.response)
         made == Requested(Requested(requests, "get_insider_graph"), "get_tokenreport")
     IN IF report # <<>>
        THEN StartRender(text, report[1], made)
        ELSE \E posted, posted_again \in BOOLEAN :
               LET sorry == Add(text, "Sorry, I couldn't retrieve a valid risk report")
               IN /\ IF posted
                     THEN /\ replies' = Append(replies, Reply(sorry, <<>>))
                          /\ reply_text' = sorry
                          /\ bot_log' = Logged("Failed to get valid report")
                          /\ Continue
                     ELSE WalletExcept(sorry, bot_log, posted_again)
                  /\ requests' = made
                  /\ UNCHANGED rendererVars
  /\ UNCHANGED branch

\* lines 358-368 and 387-402
Keyword ==
  /\ bot_pc = "keyword"
  /\ LET kind == mention.shape.kind
         report == get_tokenreport(mention.shape.response)
     IN IF kind = "other"
        THEN /\ Continue
             /\ UNCHANGED <<reply_text, replies, bot_log, requests, rendererVars>>
        ELSE IF kind = "keyword" /\ report # <<>>
        THEN StartRender(reply_text, report[1], Requested(requests, "get_tokenreport"))
        ELSE \E posted \in BOOLEAN :
               LET text == Add(reply_text,
                               IF kind = "no_token"
                               THEN "I couldn't find a valid token address"
                               ELSE "Sorry, I couldn't retrieve a valid report")
               IN /\ reply_text' = text
                  /\ replies' = IF posted THEN Append(replies, Reply(text, <<>>))
                                ELSE replies
                  /\ bot_log' = Logged(IF ~posted THEN "Twitter API error"
                                       ELSE IF kind = "no_token"
                                       THEN "No token address found"
                                       ELSE "Failed to get valid report")
                  /\ requests' = (IF kind = "keyword"
                                  THEN Requested(requests, "get_tokenreport")
                                  ELSE requests)
                  /\ Continue
                  /\ UNCHANGED rendererVars
  /\ UNCHANGED branch

\* create_report_text raised KeyError at line 324 or 367
TextFailed ==
  /\ bot_pc = "render"
  /\ pc = "start"
  /\ report_text.status = "raised"
  /\ IF branch = "wallet"
     THEN \E posted_again \in BOOLEAN : WalletExcept(reply_text, bot_log, posted_again)
     ELSE /\ bot_log' = Logged("Twitter API error")
          /\ Continue
          /\ UNCHANGED <<reply_text, replies>>
  /\ pc' = "idle"
  /\ report_text' = NoReportText
  /\ UNCHANGED <<branch, requests, report_data, token_address, localVars, keptVars>>

\* RenderDone of a bot that does not wait for create_report_image
RenderDoneEarly == TRUE

\* create_report_image has returned or raised
RenderDone == pc \in {"returned", "raised"}

\* lines 325-343 and 368-386, after create_report_image
ImageReply ==
  /\ bot_pc = "render"
  /\ RenderDone
  /\ LET text == Add(reply_text, "Here's the token risk report:")
         fallback == [parts |-> Append(text.parts, "report_text[:240]..."),
                      summary |-> Truncate(SummaryLen(report_text))]
         failed == Logged("Image creation or upload failed")
     IN \/ /\ result.status = "returned"
           /\ replies' = Append(replies, Reply(text, <<saved>>))
           /\ reply_text' = text
           /\ bot_log' = Logged("Successfully replied to tweet")
           /\ Continue
        \/ /\ replies' = Append(replies, Reply(fallback, <<>>))
           /\ reply_text' = fallback
           /\ bot_log' = failed
           /\ Continue
        \/ IF branch = "wallet"
           THEN \E posted_again \in BOOLEAN : WalletExcept(fallback, failed, posted_again)
           ELSE /\ reply_text' = fallback
                /\ replies' = replies
                /\ bot_log' = LogTo(failed, "Twitter API error")
                /\ Continue
  /\ requests' = (IF result.status = "returned"
                  THEN Requested(Requested(requests, "create_report_image"),
                                 "media_upload")
                  ELSE Requested(requests, "create_report_image"))
  /\ pc' = "idle"
  /\ ResetLocals
  /\ report_text' = NoReportText
  /\ UNCHANGED <<branch, report_data, token_address, keptVars>>

\* line 404
ReturnLastMention ==
  /\ bot_pc = "mention"
  /\ mention_no > Len(mentions)
  /\ returned_id' = mentions[Len(mentions)].id
  /\ bot_pc' = "done"
  /\ UNCHANGED <<feed, mentions, mention_no, newest_id, last_id, branch, reply_text,
                 replies, bot_log, requests, cycle, file, rendererVars>>

\* line 404
Return ==
  /\ bot_pc = "mention"
  /\ mention_no > Len(mentions)
  /\ returned_id' = newest_id
  /\ bot_pc' = "done"
  /\ UNCHANGED <<feed, mentions, mention_no, newest_id, last_id, branch, reply_text,
                 replies, bot_log, requests, cycle, file, rendererVars>>

(***************************************************************************)
(* get_tokenreport returns a report only with one or more findings, so in  *)
(* the bot create_report_image always enters its measure loop and the      *)
(* steps after line 107 are not taken.                                     *)
(***************************************************************************)
BotNext ==
  \/ Fetch
  \/ StartMention
  \/ Vote
  \/ Wallet
  \/ Keyword
  \/ CreateReportText
  \/ TextFailed
  \/ Begin
  \/ LoadFonts
  \/ LoadFontsFail
  \/ MeasureTitle
  \/ MeasureAddress
  \/ MeasureTimestamp
  \/ MeasureGauge
  \/ MeasureRisk
  \/ ImageReply
  \/ Return

BotSpec == BotInit /\ [][BotNext]_vars

(***************************************************************************)
(* main, lines 437-464: the poll cycles.  Between two cycles the timeline  *)
(* may have got a new mention, with an id above the ids it holds.          *)
(***************************************************************************)
MaxCycles == 2

\* mentions of tokens RugCheck has no report for: no render is started
PollShapes ==
  [vote : {TRUE}, kind : {"other"}, known_user : {TRUE}, response : {<<>>}]
    \cup [vote : {FALSE}, kind : {"wallet"}, known_user : {TRUE}, response : {<<>>}]
    \cup [vote : {FALSE}, kind : {"keyword"}, known_user : {FALSE}, response : {<<>>}]

PollFeeds == FeedsOf(PollShapes)

NewestFirst(timeline) ==
  \A k \in 1..Len(timeline) : timeline[1].id >= timeline[k].id

Arrivals(timeline) ==
  {timeline} \cup
    (IF Len(timeline) >= MaxMentions THEN {}
     ELSE {IF NewestFirst(timeline)
           THEN <<[id |-> Len(timeline) + 2, shape |-> shape]>> \o timeline
           ELSE Append(timeline, [id |-> Len(timeline) + 2, shape |-> shape]) :
             shape \in PollShapes})

\* lines 437-443: last_id.txt, if there is one, holds the cursor
PollInit ==
  /\ BotStart
  /\ feed \in PollFeeds
  /\ file \in {<<>>, <<2>>}
  /\ last_id = (IF file = <<>> THEN 1 ELSE file[1])

\* lines 449-464, after respondToTweet has returned
MainLoop ==
  /\ bot_pc = "done"
  /\ cycle < MaxCycles
  /\ last_id' = returned_id
  /\ \E written \in BOOLEAN :
       IF returned_id = last_id
       THEN UNCHANGED <<file, bot_log>>
       ELSE IF written
       THEN /\ file' = <<returned_id>>
            /\ bot_log' = Append(bot_log, [event |-> "Updated last ID", id |-> 0])
       ELSE /\ file' = file
            /\ bot_log' = Append(bot_log, [event |-> "An error occurred in the main loop",
                                           id |-> 0])
  /\ cycle' = cycle + 1
  /\ feed' \in Arrivals(feed)
  /\ bot_pc' = "fetch"
  /\ mentions' = <<>>
  /\ mention_no' = 0
  /\ newest_id' = 0
  /\ branch' = ""
  /\ reply_text' = NoReplyText
  /\ UNCHANGED <<returned_id, replies, requests, rendererVars>>

PollNext ==
  \/ Fetch
  \/ StartMention
  \/ Vote
  \/ Wallet
  \/ Keyword
  \/ Return
  \/ MainLoop

PollSpec == PollInit /\ [][PollNext]_vars

(***************************************************************************)
(* Properties.                                                             *)
(***************************************************************************)
HasMark(trace, section) == \E k \in 1..Len(trace) : trace[k].section = section
MarkY(trace, section) ==
  trace[CHOOSE k \in 1..Len(trace) : trace[k].section = section].y

IsArc(o) == o.op = "arc"
IsLabel(o) == o.op = "text" /\ o.text.kind = "label"
IsAddress(o) == o.op = "text" /\ o.text.kind = "Address: "
IsDisclaimer(o) == o.op = "text" /\ o.text.kind = "disclaimer"
IsWatermark(o) == o.op = "text" /\ o.text.kind = "Powered by Sniffr"
IsLevelLine(o) == o.op = "text" /\ (o.text.kind = "Level: " \/ o.text.kind = "Level: () ")
IsBar(o) == o.op = "rounded_rectangle"

Ended == pc \in {"returned", "raised"}
EnvironmentFailure ==
  result.status = "raised" /\ result.value \in {"OSError", "MemoryError", "ValueError"}

InputRisks == DictGet(report_data.risks, <<>>)
InputScore == DictGet(report_data.normalized_score, 0)
RenderedCount == IF Len(InputRisks) < 3 THEN Len(InputRisks) ELSE 3

TierLabel(s) ==
  IF s <= 33 THEN "LOW RISK" ELSE IF s <= 66 THEN "MEDIUM RISK" ELSE "HIGH RISK"
TierColour(s) ==
  IF s <= 33 THEN <<100, 200, 150>> ELSE IF s <= 66 THEN <<255, 200, 0>>
  ELSE <<255, 100, 100>>

Sections == {"title", "address", "timestamp", "gauge", "rows"}

\* C1: once the draw pass has drawn title, address, timestamp, gauge block and
\* risk rows, the offset it has reached after each of these sections equals the
\* offset the measure pass had accumulated after the same section.
C1_PassesAgree ==
  \A sec \in Sections :
    (HasMark(draw_trace, sec) /\ HasMark(measure_trace, sec))
      => MarkY(draw_trace, sec) = MarkY(measure_trace, sec)

\* C2: a render of a report with one or more findings and a normalized score in
\* 0..100 ends by returning the image path, unless a font, allocation or save
\* failure ended it.
C2_RenderCompletes ==
  (Ended /\ Len(InputRisks) >= 1 /\ InputScore \in 0..100)
    => (result = Returned("created_image.png") \/ EnvironmentFailure)

\* C3: the canvas that is drawn on and saved is 1200 wide and exactly
\* max(800, measured offset including the bottom margin) high, so at least 800
\* and at least the measured height.
C3_CanvasSize ==
  final_height # 0 =>
    LET measuredHeight == MarkY(measure_trace, "bottom")
    IN /\ image[1] = 1200
       /\ image[2] = (IF measuredHeight > 800 THEN measuredHeight ELSE 800)
       /\ image[2] >= 800
       /\ image[2] >= measuredHeight
       /\ final_height = image[2]
       /\ saved # <<>> => saved = image

C3_Witness ==
  /\ pc = "returned"
  /\ saved = <<1200, 800>>
  /\ MarkY(measure_trace, "bottom") < 800
  /\ Len(drawn) > 0

\* C4: the tier is the same function of the normalized score in the image label
\* computed by the measure pass, in the colour of the gauge and in the text
\* summary: above 66 high/red, above 33 up to 66 medium/yellow, up to 33
\* low/green.
C4_TierOfScore ==
  /\ pc = "measure_risks" => risk_level = TierLabel(InputScore)
  /\ \A k \in 1..Len(drawn) :
       (IsArc(drawn[k]) /\ drawn[k].arg[1] = 900) => drawn[k].fill = TierColour(InputScore)
  /\ report_text.status = "returned" =>
       /\ report_text.risk_level = TierLabel(report_text.score)
       /\ report_text.score = InputScore
       /\ pc = "measure_risks" => report_text.risk_level = risk_level

C4_Witness ==
  /\ pc = "returned"
  /\ score = 66
  /\ report_text.status = "returned"
  /\ report_text.risk_level = "MEDIUM RISK"
  /\ \E k \in 1..Len(drawn) : IsArc(drawn[k]) /\ drawn[k].fill = <<255, 200, 0>>

\* C5: from the gauge measurement on, the label text the draw pass draws beside
\* the gauge (risk_level) is the tier name of the normalized score, whatever
\* findings the measure pass goes through, and the label is drawn with that
\* text in the score colour.
C5_LabelIsTierName ==
  /\ HasMark(measure_trace, "gauge") => risk_level = TierLabel(InputScore)
  /\ \A k \in 1..Len(drawn) :
       IsLabel(drawn[k]) =>
         /\ drawn[k].text.s = TierLabel(InputScore)
         /\ drawn[k].fill = TierColour(InputScore)

\* C6: a render that no font, allocation or save failure ended has measured and
\* drawn exactly min(3, length) risk rows, row k showing the k-th finding of
\* the input.
C6_RowsAreFirstThree ==
  (Ended /\ ~EnvironmentFailure) =>
    LET bars == SelectSeq(drawn, IsBar)
        levels == SelectSeq(drawn, IsLevelLine)
    IN /\ measured_rows = RenderedCount
       /\ Len(bars) = RenderedCount
       /\ Len(levels) = RenderedCount
       /\ \A k \in 1..Len(levels) :
            /\ levels[k].arg = <<k>>
            /\ levels[k].text = RiskText(InputRisks[k])

\* C7: a render that no font, allocation or save failure ended has taken, for
\* every rendered finding, the same font and wrap decision in both passes:
\* small font and the 73-character wrap when the numbered name needs more than
\* 2 lines at 55 characters, normal font and the 55-character wrap otherwise.
C7_SameNamePlan ==
  (Ended /\ ~EnvironmentFailure) =>
    /\ Len(measure_plans) = RenderedCount
    /\ Len(draw_plans) = RenderedCount
    /\ \A k \in 1..RenderedCount :
         LET text == Numbered(k, DictGet(InputRisks[k].name, <<7, 4>>))
         IN /\ k <= Len(measure_plans) /\ k <= Len(draw_plans)
            /\ measure_plans[k] = draw_plans[k]
            /\ draw_plans[k] =
                 (IF Len(Wrap(text, 55)) > 2
                  THEN [font |-> fonts.small_font, lines |-> Wrap(text, 73)]
                  ELSE [font |-> fonts.normal_font, lines |-> Wrap(text, 55)])

\* C8: the ring is the full background arc 0..360 followed by a progress arc
\* from 90 degrees to 90 - 3.6 * score degrees; its sweep (start minus end) is
\* 0 for score 0, 180 for 50, 360 for 100 and does not decrease with the score.
C8_RingSweep ==
  LET arcs == SelectSeq(drawn, IsArc)
  IN arcs # <<>> =>
       /\ Len(arcs) = 2
       /\ arcs[1].arg[1] = 0 /\ arcs[1].arg[2] = 3600
       /\ arcs[1].fill = <<100, 100, 100>>
       /\ arcs[2].arg[1] = 900
       /\ (arcs[2].arg[1] - arcs[2].arg[2]) * 100 = score * 3600
       /\ score = 0 => arcs[2].arg[1] - arcs[2].arg[2] = 0
       /\ score = 50 => arcs[2].arg[1] - arcs[2].arg[2] = 1800
       /\ score = 100 => arcs[2].arg[1] - arcs[2].arg[2] = 3600
       /\ \A lower \in 0..100 :
            lower <= score =>
              start_angle - EndAngle(lower) <= arcs[2].arg[1] - arcs[2].arg[2]

C8_Witness ==
  /\ pc = "returned"
  /\ score = 50
  /\ \E k \in 1..Len(drawn) :
       IsArc(drawn[k]) /\ drawn[k].arg[1] = 900 /\ drawn[k].arg[2] = 0 - 900

\* C9: the image shows an address of more than 20 characters as its first 6
\* characters, three dots and its last 6 characters, and a shorter one as it
\* is, so never more than 20 characters; the text summary shows the first 6
\* characters, three dots and the last 4 characters.
C9_AddressShown ==
  LET n == Len(token_address)
  IN /\ address_text # NoText =>
          LET shown == address_text.body
          IN /\ n > 20 =>
                  /\ Len(shown) = 15
                  /\ \A k \in 1..6 : shown[k] = token_address[k]
                  /\ \A k \in 7..9 : shown[k] = 0
                  /\ \A k \in 1..6 : shown[9 + k] = token_address[n - 6 + k]
             /\ n <= 20 => shown = token_address
             /\ Len(shown) <= 20
             /\ address_text.len = 9 + Len(shown)
     /\ \A k \in 1..Len(drawn) : IsAddress(drawn[k]) => drawn[k].text = address_text
     /\ report_text.status = "returned" =>
          LET tok == report_text.token
              a == IF n < 6 THEN n ELSE 6
              b == IF n < 4 THEN n ELSE 4
          IN /\ Len(tok) = a + 3 + b
             /\ \A k \in 1..a : tok[k] = token_address[k]
             /\ \A k \in 1..3 : tok[a + k] = 0
             /\ \A k \in 1..b : tok[a + 3 + k] = token_address[n - b + k]

C9_Witness ==
  /\ pc = "returned"
  /\ Len(token_address) = 44
  /\ \E k \in 1..Len(drawn) :
       /\ IsAddress(drawn[k])
       /\ drawn[k].text.body = <<1, 2, 3, 4, 5, 6, 0, 0, 0, 39, 40, 41, 42, 43, 44>>
  /\ report_text.token = <<1, 2, 3, 4, 5, 6, 0, 0, 0, 41, 42, 43, 44>>

\* C10: the disclaimer lines are drawn at final_height - 40 - 25 * (number of
\* lines), 25 apart, and the watermark at final_height - 60, whatever offset the
\* content above has reached, and all of them lie inside the canvas.
C10_BottomAnchored ==
  LET lines == SelectSeq(drawn, IsDisclaimer)
      marks == SelectSeq(drawn, IsWatermark)
  IN pc \in {"save", "returned"} \/ (pc = "raised" /\ marks # <<>>) =>
       /\ Len(lines) >= 1
       /\ \A k \in 1..Len(lines) :
            /\ lines[k].xy[2] = final_height - 40 - 25 * Len(lines) + 25 * (k - 1)
            /\ lines[k].xy[2] >= 0
            /\ lines[k].xy[2] + metrics[lines[k].font][2] <= image[2]
       /\ Len(marks) = 1
       /\ marks[1].xy[2] = final_height - 60
       /\ marks[1].xy[2] >= 0
       /\ marks[1].xy[2] + metrics[marks[1].font][2] <= image[2]
       /\ image[2] >= 800

C10_Witness ==
  /\ pc = "returned"
  /\ final_height = 800
  /\ y_position < 735
  /\ \E k \in 1..Len(drawn) : IsDisclaimer(drawn[k]) /\ drawn[k].xy[2] = 735
  /\ \E k \in 1..Len(drawn) : IsWatermark(drawn[k]) /\ drawn[k].xy[2] = 740

Count(seq, x) == Cardinality({k \in 1..Len(seq) : seq[k] = x})
IsHeader(o) == o.op = "text" /\ o.text.kind = "Top Risks:"
IsTitle(o) == o.op = "text" /\ o.text.kind = "Token Risk Report"
IsTimestamp(o) == o.op = "text" /\ o.text.kind = "Generated: "
IsRowName(o) == o.op = "text" /\ o.text.kind = "line"
FirstIndex(ops, Is(_)) == CHOOSE k \in 1..Len(ops) : Is(ops[k]) /\ \A j \in 1..(k - 1) : ~Is(ops[j])
Has(ops, Is(_)) == \E k \in 1..Len(ops) : Is(ops[k])
FallbackFailed == result = Raised("OSError") /\ fonts = NoFonts

C13_FailurePropagates ==
  /\ result.status = "raised" =>
       /\ pc = "raised"
       /\ Count(log, "error") = 1
       /\ log[Len(log)] = "error"
       /\ Count(log, "info") = 1
       /\ result # Returned("created_image.png")
       /\ saved = <<>>
       /\ result.value =
            (IF fonts = NoFonts THEN "OSError"
             ELSE IF ~HasMark(measure_trace, "bottom") THEN "UnboundLocalError"
             ELSE IF final_height = 0 THEN "MemoryError"
             ELSE IF ~Has(drawn, IsWatermark) THEN "ValueError"
             ELSE "OSError")
  /\ result.status # "raised" => Count(log, "error") = 0

C13_Witness ==
  /\ pc = "raised"
  /\ result = Raised("ValueError")
  /\ Has(drawn, IsArc)
  /\ ~Has(drawn, IsWatermark)
  /\ log[Len(log)] = "error"
  /\ saved = <<>>

C15_TwoPhases ==
  /\ final_height # 0 =>
       /\ HasMark(measure_trace, "title") /\ HasMark(measure_trace, "address")
       /\ HasMark(measure_trace, "timestamp") /\ HasMark(measure_trace, "gauge")
       /\ HasMark(measure_trace, "rows") /\ HasMark(measure_trace, "disclaimer")
       /\ HasMark(measure_trace, "bottom")
       /\ measured_rows = Len(risks)
  /\ final_height = 0 => (drawn = <<>> /\ background = <<>> /\ draw_trace = <<>>)
  /\ drawn # <<>> =>
       /\ image = <<width, final_height>>
       /\ Len(drawn) >= 2
       /\ drawn[1].op = "gradient"
       /\ drawn[2].op = "rectangle"
       /\ Len(background) = final_height
       /\ \A k \in 3..Len(drawn) : drawn[k].op \notin {"gradient", "rectangle"}
  /\ Has(drawn, IsWatermark) =>
       /\ Has(drawn, IsTitle) /\ Has(drawn, IsAddress) /\ Has(drawn, IsTimestamp)
       /\ Has(drawn, IsArc) /\ Has(drawn, IsHeader) /\ Has(drawn, IsDisclaimer)
       /\ 2 < FirstIndex(drawn, IsTitle)
       /\ FirstIndex(drawn, IsTitle) < FirstIndex(drawn, IsAddress)
       /\ FirstIndex(drawn, IsAddress) < FirstIndex(drawn, IsTimestamp)
       /\ FirstIndex(drawn, IsTimestamp) < FirstIndex(drawn, IsArc)
       /\ FirstIndex(drawn, IsArc) < FirstIndex(drawn, IsHeader)
       /\ FirstIndex(drawn, IsHeader) < FirstIndex(drawn, IsDisclaimer)
       /\ FirstIndex(drawn, IsDisclaimer) < FirstIndex(drawn, IsWatermark)
       /\ FirstIndex(drawn, IsWatermark) = Len(drawn)
  /\ saved # <<>> =>
       /\ pc = "returned"
       /\ Has(drawn, IsWatermark)
       /\ saved = image
       /\ Count(log, "info") = 2

C15_Witness ==
  /\ pc = "returned"
  /\ saved = image
  /\ drawn[1].op = "gradient"
  /\ drawn[2].op = "rectangle"
  /\ IsWatermark(drawn[Len(drawn)])
  /\ HasMark(measure_trace, "bottom")

ClaimedLevelColour(risk) ==
  LET level == Upper(DictGet(risk.level, "unknown"))
  IN IF level = "DANGER" THEN <<255, 100, 100>>
     ELSE IF level = "WARNING" THEN <<255, 200, 0>> ELSE <<100, 150, 255>>

C17_HeaderWithoutRows ==
  (InputRisks = <<>> /\ Ended /\ ~EnvironmentFailure) =>
    /\ result = Returned("created_image.png")
    /\ Len(SelectSeq(drawn, IsHeader)) = 1
    /\ measured_rows = 0
    /\ measure_plans = <<>>
    /\ draw_plans = <<>>
    /\ ~HasMark(measure_trace, "row")
    /\ ~HasMark(draw_trace, "row")
    /\ ~Has(drawn, IsLevelLine)
    /\ ~Has(drawn, IsBar)
    /\ ~Has(drawn, IsRowName)

C17_Witness ==
  /\ pc = "returned"
  /\ report_data.risks = <<>>
  /\ Len(SelectSeq(drawn, IsHeader)) = 1
  /\ ~Has(drawn, IsBar)
  /\ saved # <<>>

\* C18: when a render has ended without a font, allocation, drawing or save
\* failure, the draw pass has drawn one level line per finding among the first
\* three, "Level: <LEVEL>" with the suffix " (<value>)" exactly when the
\* finding's value is present and non-empty.
C18_LevelLineSuffix ==
  (Ended /\ ~EnvironmentFailure) =>
    LET levels == SelectSeq(drawn, IsLevelLine)
    IN /\ Len(levels) = RenderedCount
       /\ \A k \in 1..RenderedCount :
            LET value == DictGet(InputRisks[k].value, "")
            IN /\ levels[k].text.s = Upper(DictGet(InputRisks[k].level, "unknown"))
               /\ (levels[k].text.kind = "Level: () ") <=> (value # "")
               /\ levels[k].text.v = value

\* C19: the background has one scanline per y in 0..H-1, H the final height,
\* coloured (30 + (20*y) div H, 30 + (40*y) div H, 40 + (60*y) div H); scanline
\* 0 is (30, 30, 40), no channel decreases from one scanline to the next, and
\* the channels stay within 30..50, 30..70 and 40..100.
C19_GradientRamp ==
  background # <<>> =>
    LET H == final_height
    IN /\ Len(background) = H
       /\ H = image[2]
       /\ background[1] = <<30, 30, 40>>
       /\ \A k \in 1..H :
            /\ background[k] = <<30 + (20 * (k - 1)) \div H, 30 + (40 * (k - 1)) \div H,
                                 40 + (60 * (k - 1)) \div H>>
            /\ background[k][1] \in 30..50
            /\ background[k][2] \in 30..70
            /\ background[k][3] \in 40..100
            /\ k < H => /\ background[k][1] <= background[k + 1][1]
                        /\ background[k][2] <= background[k + 1][2]
                        /\ background[k][3] <= background[k + 1][3]

C19_Witness ==
  /\ pc = "returned"
  /\ Len(background) = 800
  /\ background[1] = <<30, 30, 40>>
  /\ background[400] = <<39, 49, 69>>
  /\ background[800] = <<49, 69, 99>>

InFlightSteps ==
  {"fonts", "measure_title", "measure_address", "measure_timestamp", "measure_gauge",
   "measure_risks", "allocate", "save"} \cup DrawSteps
RepliesTo(id) == SelectSeq(replies, LAMBDA r : r.to = id)
LoggedFor(id, events) ==
  \E j \in 1..Len(bot_log) : bot_log[j].id = id /\ bot_log[j].event \in events

\* C12: in the bot at most one call of create_report_image is in flight, and
\* it is in flight exactly while the loop waits for the render of the mention
\* it is at, whose report is the one being rendered; a reply with media
\* carries the file saved by that render; no render in the bot gets past its
\* measure loop, so none rewrites the file.
C12_RendersSerialized ==
  /\ active \in {0, 1}
  /\ active = 1 <=> pc \in InFlightSteps
  /\ pc # "idle" =>
       /\ bot_pc = "render"
       /\ mention_no \in 1..Len(mentions)
       /\ get_tokenreport(mention.shape.response) = <<report_data>>
  /\ pc = "measure_risks" => (measured_rows < Len(risks) /\ i = Unbound)
  /\ \A k \in 1..Len(replies) :
       replies[k].media # <<>> => (replies[k].media[1] # <<>> /\ replies[k].media[1] = saved)
  /\ saved # <<>> => saved = image

C12_Witness ==
  /\ bot_pc = "render"
  /\ mention_no = 2
  /\ active = 1
  /\ pc = "measure_risks"
  /\ Count(log, "error") = 1
  /\ LoggedFor(mentions[1].id, {"Image creation or upload failed"})
  /\ Len(RepliesTo(mentions[1].id)) = 1

ExpectedSummary(response) ==
  IF response = <<LongSummary>> THEN 240
  ELSE IF response = <<ShortSummary>> THEN 98 ELSE 0

\* C20: for a mention whose render or upload failed and which the loop has
\* left, the bot has posted no reply with media and at most one reply, text
\* only and with the first 240 characters of the summary; exactly one unless
\* create_tweet itself raised; and the loop has gone on: when mentions follow
\* it in the batch, respondToTweet ends only after the last of them.
C20_TextFallback ==
  \A k \in 1..Len(mentions) :
    (LoggedFor(mentions[k].id, {"Image creation or upload failed"})
       /\ (mention_no > k \/ bot_pc = "done")) =>
      LET answers == RepliesTo(mentions[k].id)
      IN /\ Len(answers) <= 1
         /\ \A j \in 1..Len(answers) :
              /\ answers[j].media = <<>>
              /\ answers[j].summary = ExpectedSummary(mentions[k].shape.response)
              /\ \E n \in 1..Len(answers[j].parts) :
                   answers[j].parts[n] = "report_text[:240]..."
         /\ ~LoggedFor(mentions[k].id,
                       {"Twitter API error", "Unexpected error when processing"})
              => Len(answers) = 1
         /\ (bot_pc = "done" /\ k < Len(mentions)) => mention_no > Len(mentions)

RequestsFor(id, apis) == SelectSeq(requests, LAMBDA r : r.id = id /\ r.api \in apis)
ReportApis == {"get_insider_graph", "get_tokenreport", "create_report_image", "media_upload"}
\* the loop has taken mentions[k] past line 277
PastVote(k) ==
  /\ LoggedFor(mentions[k].id, {"Processing mention"})
  /\ ~(mention_no = k /\ bot_pc = "vote")

ProcessedIn(id, c) ==
  \/ \E j \in 1..Len(requests) : requests[j].id = id /\ requests[j].cycle = c
  \/ \E j \in 1..Len(replies) : replies[j].to = id /\ replies[j].cycle = c

C22_OneReply == \A k \in 1..Len(feed) : Len(RepliesTo(feed[k].id)) <= 1
C22_OneVote ==
  \A k \in 1..Len(feed) : Len(RequestsFor(feed[k].id, {"vote_token"})) <= 1
C22_NotAgain ==
  \A k \in 1..Len(feed) : \A j \in 1..Len(replies) :
    replies[j].to = feed[k].id =>
      \A c \in (replies[j].cycle + 1)..cycle : ~ProcessedIn(feed[k].id, c)

\* C22: over the poll cycles every mention of the timeline has at most one
\* posted reply and at most one call of vote_token, and a mention with a
\* posted reply is not processed in any later cycle.
C22_AnsweredOnce ==
  /\ C22_OneReply
  /\ C22_OneVote
  /\ C22_NotAgain

RECURSIVE MaxId(_, _)
MaxId(batch, least) ==
  IF batch = <<>> THEN least ELSE MaxId(Tail(batch), Max(least, Head(batch).id))

LastEvent == bot_log[Len(bot_log)].event
WriteFailed == LoggedFor(0, {"An error occurred in the main loop"})

C23_Returned ==
  /\ bot_pc = "done" =>
       /\ returned_id >= last_id
       /\ returned_id =
            (IF LastEvent \in {"Error retrieving mentions", "No new mentions found"}
             THEN last_id ELSE MaxId(mentions, last_id))
  /\ (bot_pc # "done" /\ cycle > 1) => last_id = returned_id
  /\ file # <<>> => file[1] <= last_id
  /\ ~WriteFailed => last_id = (IF file = <<>> THEN 1 ELSE file[1])

C23_Step ==
  /\ last_id' >= last_id
  /\ last_id' # last_id => last_id' = returned_id
  /\ file' # file => (file' = <<last_id'>> /\ last_id' # last_id)

CarriesRequest(shape) == shape.vote \/ shape.kind \in {"wallet", "keyword", "no_token"}

\* C24: when respondToTweet has returned, every fetched mention that carried
\* a request and is at or before the returned cursor has a posted reply; a
\* mention without one is after the cursor.
C24_NoMentionLost ==
  bot_pc = "done" =>
    \A k \in 1..Len(mentions) :
      (CarriesRequest(mentions[k].shape) /\ returned_id >= mentions[k].id) =>
        Len(RepliesTo(mentions[k].id)) >= 1

\* the offset after the risks section is within the canvas and at or above
\* every disclaimer line and the watermark
RowsAboveBottom ==
  LET y_rows == MarkY(draw_trace, "rows")
  IN /\ y_rows <= final_height
     /\ \A k \in 1..Len(drawn) :
          (IsDisclaimer(drawn[k]) \/ IsWatermark(drawn[k])) => y_rows <= drawn[k].xy[2]

RowsAboveBottomWhenDrawn == HasMark(draw_trace, "rows") => RowsAboveBottom

\* what RugCheck answered has findings and a score other than 0
ValidData(response) ==
  /\ response # <<>>
  /\ DictGet(response[1].risks, <<>>) # <<>>
  /\ DictGet(response[1].score_normalised, 0) # 0

RenderApis == {"create_report_image", "media_upload"}
SorryParts ==
  {"Sorry, I couldn't retrieve a valid risk report",
   "Sorry, I couldn't retrieve a valid report"}
\* the loop has taken mentions[k], a report request, through its branch
ReportRequestDone(k) ==
  /\ ~mentions[k].shape.vote
  /\ mentions[k].shape.kind \in {"wallet", "keyword"}
  /\ LoggedFor(mentions[k].id, {"Processing mention"})
  /\ mention_no > k \/ bot_pc = "done"

====
